---------------------------- MODULE Spec2Model ----------------------------
(***************************************************************************)
(* Loan calculator of src/script.js: calculateLoan reads four form fields, *)
(* calculateLoanDetails computes the fixed monthly payment (EMI) and the   *)
(* repayment schedule, and the results are written to four summary fields, *)
(* a table and a pie chart.                                                *)
(*                                                                         *)
(* Numbers.  A JavaScript Number is modelled as NaN, +/-Infinity or an     *)
(* exact rational n/d in lowest terms: finite arithmetic is exact (the     *)
(* binary rounding of IEEE doubles and the sign of zero are not modelled), *)
(* the non-finite cases follow IEEE 754 as JavaScript applies it.          *)
(*                                                                         *)
(* Text.  A string is a sequence of one-character strings, so that         *)
(* parseFloat, parseInt, toFixed, the Date parser and toISOString are      *)
(* conversions between text and numbers, computed digit by digit.          *)
(*                                                                         *)
(* Time.  A Date's time value is counted in hours since 1970-01-01T00:00Z  *)
(* (the form only produces date-only strings, and the host time zones of   *)
(* the model have fixed whole-hour offsets, without daylight saving).      *)
(***************************************************************************)
EXTENDS Integers, Sequences, FiniteSets, TLC

\* ------------------------------------------------------------------ bounds

\* Longest loan duration (months) the user types into the form.
MaxTerm == 3

\* ------------------------------------------------------- JavaScript Numbers

NaN == [k |-> "nan", n |-> 0, d |-> 1]

PosInf == [k |-> "inf", n |-> 1, d |-> 1]

NegInf == [k |-> "inf", n |-> -1, d |-> 1]

Abs(a) == IF a < 0 THEN -a ELSE a

RECURSIVE GCD(_, _)
GCD(a, b) == IF b = 0 THEN a ELSE GCD(b, a % b)

\* The rational n/d (d # 0) in lowest terms with a positive denominator.
Fin(n, d) ==
    LET g == GCD(Abs(n), Abs(d))
        s == IF d < 0 THEN -1 ELSE 1
    IN  [k |-> "fin", n |-> s * (n \div g), d |-> s * (d \div g)]

Num(n) == [k |-> "fin", n |-> n, d |-> 1]

IsNaN(x) == x.k = "nan"

IsFinite(x) == x.k = "fin"

Sign(x) == IF x.n > 0 THEN 1 ELSE IF x.n < 0 THEN -1 ELSE 0

Neg(x) == IF IsNaN(x) THEN NaN ELSE [x EXCEPT !.n = -x.n]

\* x + y
Add(x, y) ==
    IF IsNaN(x) \/ IsNaN(y) THEN NaN
    ELSE IF IsFinite(x) /\ IsFinite(y) THEN
        LET g == GCD(x.d, y.d)
        IN  Fin(x.n * (y.d \div g) + y.n * (x.d \div g), (x.d \div g) * y.d)
    ELSE IF IsFinite(x) THEN y
    ELSE IF IsFinite(y) THEN x
    ELSE IF x.n = y.n THEN x ELSE NaN

\* x - y
Sub(x, y) == Add(x, Neg(y))

\* x * y
Mul(x, y) ==
    IF IsNaN(x) \/ IsNaN(y) THEN NaN
    ELSE IF IsFinite(x) /\ IsFinite(y) THEN
        LET g1 == GCD(Abs(x.n), y.d)
            g2 == GCD(Abs(y.n), x.d)
        IN  Fin((x.n \div g1) * (y.n \div g2), (x.d \div g2) * (y.d \div g1))
    ELSE IF Sign(x) = 0 \/ Sign(y) = 0 THEN NaN
    ELSE IF Sign(x) = Sign(y) THEN PosInf ELSE NegInf

\* x / y
Div(x, y) ==
    IF IsNaN(x) \/ IsNaN(y) THEN NaN
    ELSE IF IsFinite(x) /\ IsFinite(y) THEN
        IF y.n = 0
        THEN IF x.n = 0 THEN NaN ELSE IF x.n > 0 THEN PosInf ELSE NegInf
        ELSE Mul(x, Fin(y.d, y.n))
    ELSE IF IsFinite(x) THEN Num(0)
    ELSE IF IsFinite(y) THEN (IF Sign(x) * (IF y.n < 0 THEN -1 ELSE 1) > 0
                              THEN PosInf ELSE NegInf)
    ELSE NaN

\* x < y (false when either side is NaN)
Less(x, y) ==
    /\ ~IsNaN(x)
    /\ ~IsNaN(y)
    /\ x # y
    /\ IF IsFinite(x) /\ IsFinite(y) THEN Sign(Sub(x, y)) < 0
       ELSE IF IsFinite(x) THEN y.n > 0
       ELSE IF IsFinite(y) THEN x.n < 0
       ELSE x.n < y.n

RECURSIVE PowNat(_, _)
PowNat(x, e) == IF e = 0 THEN Num(1) ELSE Mul(x, PowNat(x, e - 1))

\* Math.pow(x, e) for an integer or NaN exponent e: pow(x, 0) is 1 even for
\* a NaN base, pow(x, NaN) is NaN.
Pow(x, e) ==
    IF IsNaN(e) THEN NaN
    ELSE IF e.n = 0 THEN Num(1)
    ELSE IF e.n > 0 THEN PowNat(x, e.n)
    ELSE Div(Num(1), PowNat(x, -e.n))

\* --------------------------------------------------------------------- text

Digits == <<"0", "1", "2", "3", "4", "5", "6", "7", "8", "9">>

IsDigit(c) == \E v \in 1..10 : Digits[v] = c

DigitVal(c) == (CHOOSE v \in 1..10 : Digits[v] = c) - 1

\* Decimal digits of a natural number.
RECURSIVE IntText(_)
IntText(n) ==
    IF n < 10 THEN <<Digits[n + 1]>>
    ELSE IntText(n \div 10) \o <<Digits[(n % 10) + 1]>>

\* Decimal digits of n, left-padded with zeros to w characters.
RECURSIVE Pad(_, _)
Pad(n, w) == IF Len(IntText(n)) >= w THEN IntText(n)
             ELSE <<"0">> \o Pad(n, w - 1)

\* Length of the longest prefix of s made of digits.
RECURSIVE DigitRun(_)
DigitRun(s) ==
    IF s = <<>> \/ ~IsDigit(Head(s)) THEN 0 ELSE 1 + DigitRun(Tail(s))

\* Value of a sequence of digits (0 for the empty sequence).
RECURSIVE DigitsVal(_)
DigitsVal(s) ==
    IF s = <<>> THEN 0
    ELSE DigitsVal(SubSeq(s, 1, Len(s) - 1)) * 10 + DigitVal(s[Len(s)])

RECURSIVE Pow10(_)
Pow10(e) == IF e = 0 THEN 1 ELSE 10 * Pow10(e - 1)

HasSign(s) == s # <<>> /\ Head(s) \in {"-", "+"}

Unsigned(s) == IF HasSign(s) THEN Tail(s) ELSE s

InfinityText == <<"I", "n", "f", "i", "n", "i", "t", "y">>

\* parseFloat(s): the longest prefix that is [sign] Infinity or
\* [sign] digits [. digits]; NaN when there is none. (Leading white space
\* and exponents do not occur in the texts of this model.)
parseFloat(s) ==
    LET u    == Unsigned(s)
        il   == DigitRun(u)
        rest == SubSeq(u, il + 1, Len(u))
        fl   == IF rest # <<>> /\ Head(rest) = "." THEN DigitRun(Tail(rest))
                ELSE 0
        iv   == DigitsVal(SubSeq(u, 1, il))
        fv   == DigitsVal(SubSeq(rest, 2, fl + 1))
        sg   == IF HasSign(s) /\ Head(s) = "-" THEN -1 ELSE 1
    IN  IF Len(u) >= 8 /\ SubSeq(u, 1, 8) = InfinityText
        THEN (IF sg < 0 THEN NegInf ELSE PosInf)
        ELSE IF il = 0 /\ fl = 0 THEN NaN
        ELSE Fin(sg * (iv * Pow10(fl) + fv), Pow10(fl))

\* parseInt(s) with the default radix: [sign] digits, the rest ignored;
\* NaN when there is no digit.
parseInt(s) ==
    LET u  == Unsigned(s)
        il == DigitRun(u)
        sg == IF HasSign(s) /\ Head(s) = "-" THEN -1 ELSE 1
    IN  IF il = 0 THEN NaN ELSE Num(sg * DigitsVal(SubSeq(u, 1, il)))

\* Number.prototype.toFixed(2): "NaN", "Infinity", "-Infinity", or the sign
\* and the magnitude rounded to the nearest hundredth (a tie goes up).
toFixed2(x) ==
    IF IsNaN(x) THEN <<"N", "a", "N">>
    ELSE IF ~IsFinite(x) THEN
        (IF x.n < 0 THEN <<"-">> ELSE <<>>) \o InfinityText
    ELSE
        LET a  == Abs(x.n)
            q  == a \div x.d
            r0 == a % x.d
            c1 == (r0 * 10) \div x.d
            r1 == (r0 * 10) % x.d
            c2 == (r1 * 10) \div x.d
            r2 == (r1 * 10) % x.d
            up == IF 2 * r2 >= x.d THEN 1 ELSE 0
            n  == q * 100 + c1 * 10 + c2 + up
        IN  (IF x.n < 0 THEN <<"-">> ELSE <<>>)
                \o IntText(n \div 100) \o <<".">> \o Pad(n % 100, 2)

\* -------------------------------------------------------------------- dates

\* A Date object: valid is FALSE for an Invalid Date (time value NaN),
\* otherwise t is the time value in hours since the epoch (UTC).
InvalidDate == [valid |-> FALSE, t |-> 0]

IsLeap(y) == (y % 4 = 0 /\ y % 100 # 0) \/ y % 400 = 0

DaysInMonth(y, m) ==
    IF m = 2 THEN (IF IsLeap(y) THEN 29 ELSE 28)
    ELSE IF m \in {4, 6, 9, 11} THEN 30 ELSE 31

\* Day number (days since 1970-01-01) of the civil date y-m-d, m in 1..12.
DaysFromCivil(y, m, d) ==
    LET yy  == IF m <= 2 THEN y - 1 ELSE y
        era == yy \div 400
        yoe == yy - era * 400
        mp  == (m + 9) % 12
        doy == (153 * mp + 2) \div 5 + d - 1
        doe == yoe * 365 + yoe \div 4 - yoe \div 100 + doy
    IN  era * 146097 + doe - 719468

\* Civil date <<y, m, d>> of a day number.
CivilFromDays(z) ==
    LET zz  == z + 719468
        era == zz \div 146097
        doe == zz - era * 146097
        yoe == (doe - doe \div 1460 + doe \div 36524 - doe \div 146096) \div 365
        doy == doe - (365 * yoe + yoe \div 4 - yoe \div 100)
        mp  == (5 * doy + 2) \div 153
        d   == doy - (153 * mp + 2) \div 5 + 1
        m   == IF mp < 10 THEN mp + 3 ELSE mp - 9
        y   == yoe + era * 400 + (IF m <= 2 THEN 1 ELSE 0)
    IN  <<y, m, d>>

\* new Date(s) for the text of a date field: "YYYY-MM-DD" is midnight UTC of
\* that day; anything else the model offers (the empty text) is an Invalid
\* Date.
NewDate(s) ==
    IF /\ Len(s) = 10
       /\ s[5] = "-"
       /\ s[8] = "-"
       /\ \A p \in {1, 2, 3, 4, 6, 7, 9, 10} : IsDigit(s[p])
    THEN LET y == DigitsVal(SubSeq(s, 1, 4))
             m == DigitsVal(SubSeq(s, 6, 7))
             d == DigitsVal(SubSeq(s, 9, 10))
         IN  IF m \in 1..12 /\ d >= 1 /\ d <= DaysInMonth(y, m)
             THEN [valid |-> TRUE, t |-> DaysFromCivil(y, m, d) * 24]
             ELSE InvalidDate
    ELSE InvalidDate

\* date.setMonth(date.getMonth() + i) in a host whose local time is UTC + tz
\* hours: getMonth and setMonth work on the local date and time of day, a
\* month past December or a day past the end of the month carries over.
SetMonthPlus(date, i, tz) ==
    IF ~date.valid THEN InvalidDate
    ELSE LET local == date.t + tz
             day   == local \div 24
             hour  == local % 24
             ymd   == CivilFromDays(day)
             mon   == (ymd[2] - 1) + i
             first == DaysFromCivil(ymd[1] + mon \div 12, (mon % 12) + 1, 1)
         IN  [valid |-> TRUE, t |-> (first + ymd[3] - 1) * 24 + hour - tz]

\* date.toISOString().split('T')[0] of a valid Date: the UTC calendar date.
ISODate(date) ==
    LET ymd == CivilFromDays(date.t \div 24)
    IN  Pad(ymd[1], 4) \o <<"-">> \o Pad(ymd[2], 2) \o <<"-">> \o Pad(ymd[3], 2)

\* ---------------------------------------------------------- the form texts

\* Texts the user may leave in the loan-amount field.
AmountTexts == {<<>>, <<"0", ".", "0", "1">>, <<"1", "0", "0", "0">>}

\* Texts of the interest-rate field (percent per year): 120 is 10% a month,
\* 600 is 50% a month.
RateTexts == {<<>>, <<"0">>, <<"1", "2", "0">>, <<"6", "0", "0">>}

\* Texts of the loan-duration field (months).
DurationTexts == {<<>>} \cup {IntText(n) : n \in 0..MaxTerm}

\* Texts of the start-date field.
StartTexts ==
    {<<>>,
     <<"2", "0", "2", "4", "-", "0", "1", "-", "0", "1">>,
     <<"2", "0", "2", "4", "-", "0", "1", "-", "3", "1">>}

\* Offsets from UTC (hours) of the hosts the page may run on.
TimeZones == {-5, 0, 5}

\* -------------------------------------------------------------------- state

VARIABLES
    amountField,     \* value of #loan-amount
    rateField,       \* value of #interest-rate
    durationField,   \* value of #loan-duration
    startField,      \* value of #start-date
    tz,              \* the host's offset from UTC
    pc,              \* position of the click handler; "idle" between clicks
    loanAmount,      \* locals of calculateLoan / calculateLoanDetails
    interestRate,
    loanDuration,
    startDate,
    monthlyEMI,
    i,               \* locals of generateRepaymentScheduleArray
    balance,
    scheduleArray,
    totalInterest,
    totalAmount,
    amountResult,    \* textContent of #loan-amount-result
    emiText,         \* textContent of #monthly-emi
    interestText,    \* textContent of #total-interest
    totalText,       \* textContent of #total-amount
    tableRows,       \* rows of the table in #repayment-schedule
    pieData,         \* data of the chart last drawn on #pie-chart
    thrown           \* the last click ended in an uncaught exception

fields == <<amountField, rateField, durationField, startField>>

locals == <<loanAmount, interestRate, loanDuration, startDate, monthlyEMI,
            i, balance, scheduleArray, totalInterest, totalAmount>>

summary == <<amountResult, emiText, interestText, totalText>>

vars == <<fields, tz, pc, locals, summary, tableRows, pieData, thrown>>

\* ------------------------------------------------------ calculateLoanDetails

\* Mutant: the annual rate used as the rate of a month.
MonthlyInterest_annual(rate) == rate

MonthlyInterest(rate) == Div(rate, Num(12))

\* Mutant: a flat-interest payment, principal / term + principal * rate.
EMI_flat(amount, rate, duration) ==
    Add(Div(amount, duration), Mul(amount, Div(rate, Num(12))))

\* Mutant: the "- 1" of the denominator dropped.
EMI_noMinusOne(amount, rate, duration) ==
    LET monthlyInterest == Div(rate, Num(12))
        growth          == Pow(Add(Num(1), monthlyInterest), duration)
    IN  Div(Mul(Mul(amount, monthlyInterest), growth), growth)

\* Mutant: a zero rate special-cased to principal / term.
EMI_zeroRateSplit(amount, rate, duration) ==
    LET monthlyInterest == Div(rate, Num(12))
        growth          == Pow(Add(Num(1), monthlyInterest), duration)
    IN  IF rate = Num(0) THEN Div(amount, duration)
        ELSE Div(Mul(Mul(amount, monthlyInterest), growth),
                 Sub(growth, Num(1)))

\* The monthly payment of lines 20-23.
EMI(amount, rate, duration) ==
    LET monthlyInterest == MonthlyInterest(rate)
        growth      == Pow(Add(Num(1), monthlyInterest), duration)
        numerator   == Mul(Mul(amount, monthlyInterest), growth)
        denominator == Sub(growth, Num(1))
    IN  Div(numerator, denominator)

\* Mutant: i <= loanDuration.
LoopGuard_inclusive(idx, duration) ==
    Less(Num(idx), duration) \/ Num(idx) = duration

\* The loop condition i < loanDuration.
LoopGuard(idx, duration) == Less(Num(idx), duration)

\* Mutant: the interest computed from the balance as shown in the row.
InterestOf_rounded(bal, rate) ==
    Mul(parseFloat(toFixed2(bal)), Div(rate, Num(12)))

InterestOf(bal, rate) == Mul(bal, MonthlyInterest(rate))

PrincipalOf(emi, interest) == Sub(emi, interest)

\* Mutant: the principal portion added to the balance.
NextBalance_added(bal, principal) == Add(bal, principal)

NextBalance(bal, principal) == Sub(bal, principal)

\* The Date of period idx: new Date(startDate), moved on idx months.
PeriodDate(start, idx, zone) == SetMonthPlus(NewDate(start), idx, zone)

\* The object pushed for one period.
Row(date, principal, interest, bal) ==
    [date            |-> ISODate(date),
     principalAmount |-> toFixed2(principal),
     interest        |-> toFixed2(interest),
     balance         |-> toFixed2(bal)]

TotalInterestOf(emi, duration, amount) == Sub(Mul(emi, duration), amount)

TotalAmountOf(interest, amount) == Add(interest, amount)

\* ------------------------------------------------------------------ the page

HeaderRow ==
    << <<"D", "a", "t", "e">>,
       <<"P", "r", "i", "n", "c", "i", "p", "a", "l", " ",
         "A", "m", "o", "u", "n", "t">>,
       <<"I", "n", "t", "e", "r", "e", "s", "t">>,
       <<"B", "a", "l", "a", "n", "c", "e">> >>

\* The <tr> appended for one entry of the schedule.
TableRow(entry) ==
    <<entry.date, entry.principalAmount, entry.interest, entry.balance>>

\* Locals of a handler that is not running.
NoLocals ==
    /\ loanAmount' = NaN
    /\ interestRate' = NaN
    /\ loanDuration' = NaN
    /\ startDate' = <<>>
    /\ monthlyEMI' = NaN
    /\ i' = 0
    /\ balance' = NaN
    /\ scheduleArray' = <<>>
    /\ totalInterest' = NaN
    /\ totalAmount' = NaN

Init ==
    /\ amountField = <<>>
    /\ rateField = <<>>
    /\ durationField = <<>>
    /\ startField = <<>>
    /\ tz \in TimeZones
    /\ pc = "idle"
    /\ loanAmount = NaN
    /\ interestRate = NaN
    /\ loanDuration = NaN
    /\ startDate = <<>>
    /\ monthlyEMI = NaN
    /\ i = 0
    /\ balance = NaN
    /\ scheduleArray = <<>>
    /\ totalInterest = NaN
    /\ totalAmount = NaN
    /\ amountResult = <<>>
    /\ emiText = <<>>
    /\ interestText = <<>>
    /\ totalText = <<>>
    /\ tableRows = <<>>
    /\ pieData = <<>>
    /\ thrown = FALSE

\* The user edits a field between two clicks.
EditAmount ==
    /\ pc = "idle"
    /\ \E v \in AmountTexts : v # amountField /\ amountField' = v
    /\ UNCHANGED <<rateField, durationField, startField, tz, pc, locals,
                   summary, tableRows, pieData, thrown>>

EditRate ==
    /\ pc = "idle"
    /\ \E v \in RateTexts : v # rateField /\ rateField' = v
    /\ UNCHANGED <<amountField, durationField, startField, tz, pc, locals,
                   summary, tableRows, pieData, thrown>>

EditDuration ==
    /\ pc = "idle"
    /\ \E v \in DurationTexts : v # durationField /\ durationField' = v
    /\ UNCHANGED <<amountField, rateField, startField, tz, pc, locals,
                   summary, tableRows, pieData, thrown>>

EditStart ==
    /\ pc = "idle"
    /\ \E v \in StartTexts : v # startField /\ startField' = v
    /\ UNCHANGED <<amountField, rateField, durationField, tz, pc, locals,
                   summary, tableRows, pieData, thrown>>

\* calculateLoan, lines 3-8, into calculateLoanDetails, lines 20-23, and the
\* head of generateRepaymentScheduleArray, lines 34-35.
CalculateLoan ==
    /\ pc = "idle"
    /\ pc' = "loop"
    /\ loanAmount' = parseFloat(amountField)
    /\ interestRate' = Div(parseFloat(rateField), Num(100))
    /\ loanDuration' = parseInt(durationField)
    /\ startDate' = startField
    /\ monthlyEMI' = EMI(loanAmount', interestRate', loanDuration')
    /\ scheduleArray' = <<>>
    /\ balance' = loanAmount'
    /\ i' = 0
    /\ thrown' = FALSE
    /\ UNCHANGED <<fields, tz, totalInterest, totalAmount, summary, tableRows,
                   pieData>>

\* One iteration of the loop of lines 37-51 on a valid Date.
LoopIteration ==
    /\ pc = "loop"
    /\ LoopGuard(i, loanDuration)
    /\ LET date      == PeriodDate(startDate, i, tz)
           interest  == InterestOf(balance, interestRate)
           principal == PrincipalOf(monthlyEMI, interest)
       IN  /\ date.valid
           /\ balance' = NextBalance(balance, principal)
           /\ scheduleArray' =
                  Append(scheduleArray, Row(date, principal, interest, balance'))
    /\ i' = i + 1
    /\ UNCHANGED <<fields, tz, pc, loanAmount, interestRate, loanDuration,
                   startDate, monthlyEMI, totalInterest, totalAmount, summary,
                   tableRows, pieData, thrown>>

\* An iteration on an Invalid Date: toISOString (line 46) throws a
\* RangeError, nothing catches it, and the click handler ends there.
LoopThrows ==
    /\ pc = "loop"
    /\ LoopGuard(i, loanDuration)
    /\ ~PeriodDate(startDate, i, tz).valid
    /\ pc' = "idle"
    /\ thrown' = TRUE
    /\ NoLocals
    /\ UNCHANGED <<fields, tz, summary, tableRows, pieData>>

\* The loop ends; lines 27-30 and the return to calculateLoan.
LoopExit ==
    /\ pc = "loop"
    /\ ~LoopGuard(i, loanDuration)
    /\ totalInterest' = TotalInterestOf(monthlyEMI, loanDuration, loanAmount)
    /\ totalAmount' = TotalAmountOf(totalInterest', loanAmount)
    /\ pc' = "summary"
    /\ UNCHANGED <<fields, tz, loanAmount, interestRate, loanDuration,
                   startDate, monthlyEMI, i, balance, scheduleArray, summary,
                   tableRows, pieData, thrown>>

\* Lines 10-13: the four summary fields.
WriteSummary ==
    /\ pc = "summary"
    /\ amountResult' = toFixed2(loanAmount)
    /\ emiText' = toFixed2(monthlyEMI)
    /\ interestText' = toFixed2(totalInterest)
    /\ totalText' = toFixed2(totalAmount)
    /\ pc' = "schedule"
    /\ UNCHANGED <<fields, tz, locals, tableRows, pieData, thrown>>

\* generateRepaymentSchedule, lines 56-64: the header row replaces the
\* table's content and one row is appended per entry.
GenerateRepaymentSchedule ==
    /\ pc = "schedule"
    /\ tableRows' = <<HeaderRow>>
                      \o [k \in 1..Len(scheduleArray) |-> TableRow(scheduleArray[k])]
    /\ pc' = "chart"
    /\ UNCHANGED <<fields, tz, locals, summary, pieData, thrown>>

\* generatePieChart, lines 66-87, and the end of the handler.
GeneratePieChart ==
    /\ pc = "chart"
    /\ pieData' = <<loanAmount, totalInterest>>
    /\ pc' = "idle"
    /\ NoLocals
    /\ UNCHANGED <<fields, tz, summary, tableRows, thrown>>

Next ==
    \/ EditAmount
    \/ EditRate
    \/ EditDuration
    \/ EditStart
    \/ CalculateLoan
    \/ LoopIteration
    \/ LoopThrows
    \/ LoopExit
    \/ WriteSummary
    \/ GenerateRepaymentSchedule
    \/ GeneratePieChart

Spec == Init /\ [][Next]_vars

\* ------------------------------------------------------------- properties

\* The handler is past the loop: calculateLoanDetails has returned.
Returned == pc \in {"summary", "schedule", "chart"}

Positive(x) == Less(Num(0), x)

\* principal > 0, rate >= 0, a term of at least one month, a valid date.
ValidInput ==
    /\ Positive(loanAmount)
    /\ IsFinite(interestRate) /\ interestRate.n >= 0
    /\ IsFinite(loanDuration) /\ loanDuration.n >= 1
    /\ NewDate(startDate).valid

\* A positive-rate loan: principal > 0, rate > 0, at least one month.
PositiveRateLoan ==
    /\ Positive(loanAmount)
    /\ Positive(interestRate) /\ IsFinite(interestRate)
    /\ IsFinite(loanDuration) /\ loanDuration.n >= 1

NonFiniteTexts == {toFixed2(NaN), toFixed2(PosInf), toFixed2(NegInf)}

\* C1: for a valid input the loop never throws, holds one row per period
\* index passed so far, and the schedule returned has exactly termMonths
\* rows.
C1_ScheduleLength ==
    /\ (pc = "loop" /\ ValidInput) =>
          /\ Len(scheduleArray) = i
          /\ i <= loanDuration.n
          /\ LoopGuard(i, loanDuration) => PeriodDate(startDate, i, tz).valid
    /\ (Returned /\ ValidInput) => Len(scheduleArray) = loanDuration.n

C1_Witness ==
    /\ pc = "summary"
    /\ ValidInput
    /\ loanDuration.n >= 2
    /\ Len(scheduleArray) = loanDuration.n

\* C2: for a positive-rate loan the running balance left by the last
\* iteration is exactly zero, and the last row shows it as 0.00.
C2_FinalBalanceZero ==
    (pc = "summary" /\ PositiveRateLoan) =>
        /\ balance = Num(0)
        /\ scheduleArray[Len(scheduleArray)].balance = toFixed2(Num(0))

C2_Witness ==
    /\ pc = "summary"
    /\ PositiveRateLoan
    /\ loanDuration.n >= 2
    /\ balance = Num(0)

\* The balance shown in row k of the schedule, read back as a number.
ShownBalance(rows, k) == parseFloat(rows[k].balance)

C4_SinglePeriod ==
    (pc = "summary" /\ loanDuration = Num(1) /\ IsFinite(loanAmount)
        /\ Positive(interestRate) /\ IsFinite(interestRate)) =>
        LET r == Div(interestRate, Num(12))
        IN  /\ monthlyEMI = Mul(loanAmount, Add(Num(1), r))
            /\ Len(scheduleArray) = 1
            /\ scheduleArray[1].interest = toFixed2(Mul(loanAmount, r))
            /\ scheduleArray[1].principalAmount = toFixed2(loanAmount)

C4_Witness ==
    /\ pc = "summary"
    /\ loanDuration = Num(1)
    /\ Positive(loanAmount)
    /\ Positive(interestRate) /\ IsFinite(interestRate)
    /\ Len(scheduleArray) = 1

\* C5 as stated: when an invocation ends, the summary fields show that
\* invocation's amount and payment, and the table holds the header row and
\* nothing of an earlier invocation.
C5_LatestInvocationShown ==
    [][(pc # "idle" /\ pc' = "idle") =>
          /\ amountResult' = toFixed2(loanAmount)
          /\ emiText' = toFixed2(monthlyEMI)
          /\ tableRows' # <<>>
          /\ tableRows'[1] = HeaderRow
          /\ thrown' \/ Len(tableRows') = 1 + Len(scheduleArray)]_vars

\* What does hold of re-invocation: an invocation that ends without an
\* exception has overwritten the four summary fields, the table (the header
\* row and one row per entry of its own schedule) and the chart data.
OverwritesUnlessThrown ==
    [][(pc # "idle" /\ pc' = "idle" /\ ~thrown') =>
          /\ amountResult' = toFixed2(loanAmount)
          /\ emiText' = toFixed2(monthlyEMI)
          /\ interestText' = toFixed2(totalInterest)
          /\ totalText' = toFixed2(totalAmount)
          /\ tableRows' = <<HeaderRow>>
                 \o [k \in 1..Len(scheduleArray) |-> TableRow(scheduleArray[k])]
          /\ pieData' = <<loanAmount, totalInterest>>]_vars

\* The only exception is the RangeError of an Invalid Date: an invocation
\* throws only when its start date does not parse.
ThrowsOnlyOnInvalidDate ==
    [][(thrown' /\ pc # "idle") => ~NewDate(startDate).valid]_vars

\* C6 as stated: no invocation aborts with an exception; each one that ends
\* has written the summary, the table and the chart.
C6_NeverAborts ==
    [][(pc # "idle" /\ pc' = "idle") =>
          /\ ~thrown'
          /\ interestText' = toFixed2(totalInterest)
          /\ pieData' = <<loanAmount, totalInterest>>]_vars

\* C7: with a term of zero months (principal > 0, rate > 0) the payment,
\* the total interest and the total payable are non-finite and the
\* schedule is empty.
C7_ZeroTerm ==
    (Returned /\ loanDuration = Num(0) /\ Positive(loanAmount)
        /\ Positive(interestRate)) =>
        /\ ~IsFinite(monthlyEMI)
        /\ ~IsFinite(totalInterest)
        /\ ~IsFinite(totalAmount)
        /\ scheduleArray = <<>>

C7_Witness ==
    /\ pc = "summary"
    /\ loanDuration = Num(0)
    /\ Positive(loanAmount)
    /\ Positive(interestRate)
    /\ monthlyEMI = PosInf
    /\ IsNaN(totalInterest)

\* C8: with a rate of zero (principal > 0, at least one month) the payment,
\* the total interest and the total payable are non-finite, and each of
\* the termMonths rows shows a non-finite principal portion and balance.
C8_ZeroRate ==
    (Returned /\ interestRate = Num(0) /\ Positive(loanAmount)
        /\ IsFinite(loanDuration) /\ loanDuration.n >= 1) =>
        /\ ~IsFinite(monthlyEMI)
        /\ ~IsFinite(totalInterest)
        /\ ~IsFinite(totalAmount)
        /\ Len(scheduleArray) = loanDuration.n
        /\ \A k \in 1..Len(scheduleArray) :
              /\ scheduleArray[k].principalAmount \in NonFiniteTexts
              /\ scheduleArray[k].balance \in NonFiniteTexts

C8_Witness ==
    /\ pc = "summary"
    /\ interestRate = Num(0)
    /\ Positive(loanAmount)
    /\ Len(scheduleArray) >= 2
    /\ IsNaN(monthlyEMI)

\* The balance after k periods of the recurrence with no rounding anywhere.
RECURSIVE ExactBalance(_, _, _, _)
ExactBalance(amount, emi, rate, k) ==
    IF k = 0 THEN amount
    ELSE LET b == ExactBalance(amount, emi, rate, k - 1)
         IN  Sub(b, Sub(emi, Mul(b, Div(rate, Num(12)))))

\* C9: the running balance after i iterations is that of the recurrence
\* with no rounding, and the interest shown in a row is computed from the
\* unrounded balance the iteration before left.
C9_RoundingNotCarried ==
    pc # "idle" =>
        /\ balance = ExactBalance(loanAmount, monthlyEMI, interestRate, i)
        /\ \A k \in 1..Len(scheduleArray) :
              scheduleArray[k].interest =
                  toFixed2(Mul(ExactBalance(loanAmount, monthlyEMI,
                                            interestRate, k - 1),
                               Div(interestRate, Num(12))))

C9_Witness ==
    /\ pc = "loop"
    /\ PositiveRateLoan
    /\ i >= 2
    /\ parseFloat(scheduleArray[1].balance)
           # ExactBalance(loanAmount, monthlyEMI, interestRate, 1)

\* C10 as stated: the date of row k is the start date moved on k whole
\* calendar months (a day past the end of a month carried over, as calendar
\* arithmetic on the date itself does).
C10_RowDates ==
    pc # "idle" =>
        \A k \in 1..Len(scheduleArray) :
            scheduleArray[k].date
                = ISODate(SetMonthPlus(NewDate(startDate), k - 1, 0))

=============================================================================
